---- MODULE Spec2Model ----
(***************************************************************************)
(* Model of the orchestration core of aparte (src/core.rs), of the        *)
(* carbons plugin (src/plugins/carbons.rs) and of the message and contact  *)
(* values of the domain model (src/core.rs, src/contact.rs).               *)
(*                                                                         *)
(* The program is single threaded.  Its control state is a call stack:     *)
(* the driver ("main"), the loops of Aparte::event and Aparte::init, the   *)
(* plugin hooks they call and the command handlers parse_command calls.    *)
(* A panic (RefCell borrow conflict, unwrap on None) ends the program: it  *)
(* is recorded in fault and no step follows it.                            *)
(***************************************************************************)
EXTENDS Integers, Sequences, FiniteSets, TLC

\* ---------------------------------------------------------------- bounds
MaxCalls == 3       \* calls of the core the driver makes
MaxHookCalls == 1   \* calls of the core arbitrary hooks and handlers make

\* ---------------------------------------------------------------- values
\* Plugin kinds (TypeId keys) and concrete plugin types.  "Carbons" is
\* CarbonsPlugin; "Disco" stands for a plugin whose hooks are arbitrary code.
Kinds == {"Carbons", "Disco"}
NoKind == "NoKind"
NoPlugin == [inst |-> 0, ty |-> NoKind, inited |-> 0]

\* RefCell borrow flag values
UNUSED == 0
WRITING == -1

\* FullJid values; node "" stands for Option::None.  J1 and J3 are
\* different addresses with the same string form.
J1 == [node |-> "a", domain |-> "b", resource |-> "r"]
J2 == [node |-> "c", domain |-> "b", resource |-> "r"]
J3 == [node |-> "", domain |-> "a@b", resource |-> "r"]
Jids == {J1, J2, J3}
NoJid == [node |-> "", domain |-> "", resource |-> ""]

JidToString(j) ==
    IF j.node = "" THEN j.domain \o "/" \o j.resource
    ELSE j.node \o "@" \o j.domain \o "/" \o j.resource

Keys == {JidToString(j) : j \in Jids}
NoKey == ""

\* UnboundedSender handles: the n-th add_connection brings channel n
Sinks == 1..(MaxCalls + MaxHookCalls)
NoConn == [account |-> NoJid, sink |-> 0]

\* command names and handler functions
CmdNames == {"win", "quit"}
Handlers == {"h1", "h2"}
NoCmd == "NoCmd"

\* log bodies and the values Uuid::new_v4().to_string() can produce
LogBodies == {"x", "y"}
Uuids == {"uuid-1", "uuid-2"}
NoMsg == [variant |-> "none", id |-> "", body |-> ""]

VARIABLES
    commands,            \* Aparte.commands
    plugins,             \* Aparte.plugins: kind -> stored instance
    borrow,              \* borrow flag of each plugin slot's RefCell
    connections,         \* Aparte.connections: key -> Connection
    current_connection,  \* Aparte.current_connection
    chan,                \* state of each outbound channel
    stack,               \* call stack, bottom frame is the driver
    fault,               \* "none" or the panic that ended the program
    ret,                 \* what the step just taken returned, if anything
    bcast,               \* the broadcasts started so far
    trace,               \* hook invocations of the broadcasts, in order
    inits,               \* the calls of Aparte::init so far
    cmdcalls,            \* the calls of parse_command so far
    sent,                \* the calls of Aparte::send so far
    hist,                \* bookkeeping: counters and last-write history
    calls,               \* calls made so far by the driver and by hooks
    values               \* values of the domain model under evaluation

vars == <<commands, plugins, borrow, connections, current_connection, chan,
          stack, fault, ret, bcast, trace, inits, cmdcalls, sent, hist,
          calls, values>>

\* ---------------------------------------------------------------- frames
BodyOps == {"main", "on_event", "init_hook", "command"}
RcOps == {"main", "on_event", "command"}

BaseFrame ==
    [op |-> "main", kind |-> NoKind, ty |-> NoKind, inst |-> 0, id |-> 0,
     todo |-> {}, heldMut |-> {}, heldSh |-> [k \in Kinds |-> 0],
     pc |-> "body"]

Top == stack[Len(stack)]
Running == fault = "none"

SetTop(f) == [stack EXCEPT ![Len(stack)] = f]
Push(f) == Append(stack, f)
Pop == SubSeq(stack, 1, Len(stack) - 1)

NoGuards(f) == f.heldMut = {} /\ \A k \in Kinds : f.heldSh[k] = 0

\* arbitrary code with a handle on the orchestrator is running
InBody == Running /\ Top.op \in BodyOps /\ Top.ty # "Carbons"
\* ... and the handle is an Rc<Aparte>
InRcBody == InBody /\ Top.op \in RcOps
\* the caller has exclusive access (&mut self): no hook or handler is
\* running and no guard borrowed from the orchestrator is alive
AtMain == Running /\ Len(stack) = 1 /\ NoGuards(Top)

\* the code that is running may make one more call of the core
CanCall ==
    IF Len(stack) = 1 THEN calls.main < MaxCalls
    ELSE calls.inner < MaxHookCalls
Called ==
    IF Len(stack) = 1 THEN [calls EXCEPT !.main = @ + 1]
    ELSE [calls EXCEPT !.inner = @ + 1]

Registered == {k \in Kinds : plugins[k] # NoPlugin}

Ret(op, result, kind, inst, id, key) ==
    [op |-> op, result |-> result, kind |-> kind, inst |-> inst,
     id |-> id, key |-> key, acct |-> NoJid]
NoRet == Ret("none", "none", NoKind, 0, 0, NoKey)

\* no value of the domain model is under evaluation
NoValues == [pc |-> "none"]

\* Aparte::new and the state of what surrounds the orchestrator
Aparte_new ==
    /\ commands = [n \in CmdNames |-> NoCmd]
    /\ plugins = [k \in Kinds |-> NoPlugin]
    /\ borrow = [k \in Kinds |-> UNUSED]
    /\ connections = [s \in Keys |-> NoConn]
    /\ current_connection = NoKey
    /\ chan = [s \in Sinks |-> [open |-> TRUE, posted |-> 0]]
    /\ stack = <<BaseFrame>>
    /\ fault = "none"
    /\ ret = NoRet
    /\ bcast = <<>>
    /\ trace = <<>>
    /\ inits = <<>>
    /\ cmdcalls = <<>>
    /\ sent = <<>>
    /\ hist = [adds |-> 0, connAdds |-> 0, cmdAdds |-> 0,
               lastPlugin |-> [k \in Kinds |-> 0],
               lastCmd |-> [n \in CmdNames |-> NoCmd],
               lastAccount |-> NoJid,
               addResult |-> "none",
               warns |-> 0]
    /\ calls = [main |-> 0, inner |-> 0]

Init == Aparte_new /\ values = NoValues

\* ------------------------------------------------------ command registry
\* add_command as it would be with entry().or_insert(): the first stays
add_command_keep_first(name, command) ==
    /\ AtMain
    /\ CanCall
    /\ commands' = [commands EXCEPT
                      ![name] = IF @ = NoCmd THEN command ELSE @]
    /\ hist' = [hist EXCEPT !.cmdAdds = @ + 1, !.lastCmd[name] = command]
    /\ ret' = NoRet
    /\ UNCHANGED <<plugins, borrow, connections, current_connection, chan,
                   stack, fault, bcast, trace, inits, cmdcalls, sent>>
    /\ calls' = Called
    /\ UNCHANGED values

\* Aparte::add_command
add_command(name, command) ==
    /\ AtMain
    /\ CanCall
    /\ commands' = [commands EXCEPT ![name] = command]
    /\ hist' = [hist EXCEPT !.cmdAdds = @ + 1, !.lastCmd[name] = command]
    /\ ret' = NoRet
    /\ UNCHANGED <<plugins, borrow, connections, current_connection, chan,
                   stack, fault, bcast, trace, inits, cmdcalls, sent>>
    /\ calls' = Called
    /\ UNCHANGED values

\* ------------------------------------------------------- plugin registry
\* add_plugin as it would be if a registered kind kept its instance
add_plugin_keep_first(T, U) ==
    /\ AtMain
    /\ CanCall
    /\ plugins' = [plugins EXCEPT
                     ![T] = IF @ = NoPlugin
                            THEN [inst |-> hist.adds + 1, ty |-> U,
                                  inited |-> 0]
                            ELSE @]
    /\ borrow' = [borrow EXCEPT ![T] = UNUSED]
    /\ hist' = [hist EXCEPT !.adds = @ + 1, !.lastPlugin[T] = hist.adds + 1,
                             !.addResult = "Ok"]
    /\ ret' = NoRet
    /\ UNCHANGED <<commands, connections, current_connection, chan, stack,
                   fault, bcast, trace, inits, cmdcalls, sent>>
    /\ calls' = Called
    /\ UNCHANGED values

\* Aparte::add_plugin::<T>(plugin), plugin a box of concrete type U
add_plugin(T, U) ==
    /\ AtMain
    /\ CanCall
    /\ plugins' = [plugins EXCEPT ![T] = [inst |-> hist.adds + 1, ty |-> U,
                                        inited |-> 0]]
    /\ borrow' = [borrow EXCEPT ![T] = UNUSED]
    /\ hist' = [hist EXCEPT !.adds = @ + 1, !.lastPlugin[T] = hist.adds + 1,
                             !.addResult = "Ok"]
    /\ ret' = NoRet
    /\ UNCHANGED <<commands, connections, current_connection, chan, stack,
                   fault, bcast, trace, inits, cmdcalls, sent>>
    /\ calls' = Called
    /\ UNCHANGED values

\* a cell that hands out shared borrows without looking at its flag
CanBorrowAlways(flag) == TRUE

\* RefCell::borrow succeeds unless the cell is mutably borrowed
CanBorrow(flag) == flag >= 0

\* a cell that hands out exclusive borrows without looking at its flag
CanBorrowMutAlways(flag) == TRUE

\* RefCell::borrow_mut succeeds only when the cell is not borrowed at all
CanBorrowMut(flag) == flag = UNUSED

\* a panic: the program ends; T is the slot the failed call was after
Panic(why, T) ==
    /\ fault' = why
    /\ ret' = Ret("panic", why, T, 0, 0, NoKey)
    /\ UNCHANGED <<commands, plugins, borrow, connections,
                   current_connection, chan, stack, bcast, trace, inits,
                   cmdcalls, sent, hist>>

\* Aparte::get_plugin::<T>
get_plugin(T) ==
    /\ InBody
    /\ CanCall
    /\ IF plugins[T] = NoPlugin
       THEN /\ ret' = Ret("get_plugin", "None", T, 0, 0, NoKey)
            /\ UNCHANGED <<commands, plugins, borrow, connections,
                           current_connection, chan, stack, fault, bcast,
                           trace, inits, cmdcalls, sent, hist>>
       ELSE IF ~CanBorrow(borrow[T])
       THEN Panic("get_plugin: already mutably borrowed", T)
       ELSE IF plugins[T].ty # T
       THEN Panic("get_plugin: downcast failed", T)
       ELSE /\ borrow' = [borrow EXCEPT ![T] = @ + 1]
            /\ stack' = SetTop([Top EXCEPT !.heldSh[T] = @ + 1])
            /\ ret' = Ret("get_plugin", "Some", T, plugins[T].inst, 0, NoKey)
            /\ UNCHANGED <<commands, plugins, connections,
                           current_connection, chan, fault, bcast, trace,
                           inits, cmdcalls, sent, hist>>
    /\ calls' = Called
    /\ UNCHANGED values

\* get_plugin_mut as it would be without the check of the downcast
get_plugin_mut_unchecked(T) ==
    /\ InBody
    /\ CanCall
    /\ IF plugins[T] = NoPlugin
       THEN /\ ret' = Ret("get_plugin_mut", "None", T, 0, 0, NoKey)
            /\ UNCHANGED <<commands, plugins, borrow, connections,
                           current_connection, chan, stack, fault, bcast,
                           trace, inits, cmdcalls, sent, hist>>
       ELSE IF ~CanBorrowMut(borrow[T])
       THEN Panic("get_plugin_mut: already borrowed", T)
       ELSE /\ borrow' = [borrow EXCEPT ![T] = WRITING]
            /\ stack' = SetTop([Top EXCEPT !.heldMut = @ \cup {T}])
            /\ ret' = Ret("get_plugin_mut", "Some", T, plugins[T].inst, 0,
                          NoKey)
            /\ UNCHANGED <<commands, plugins, connections,
                           current_connection, chan, fault, bcast, trace,
                           inits, cmdcalls, sent, hist>>
    /\ calls' = Called
    /\ UNCHANGED values

\* Aparte::get_plugin_mut::<T>
get_plugin_mut(T) ==
    /\ InBody
    /\ CanCall
    /\ IF plugins[T] = NoPlugin
       THEN /\ ret' = Ret("get_plugin_mut", "None", T, 0, 0, NoKey)
            /\ UNCHANGED <<commands, plugins, borrow, connections,
                           current_connection, chan, stack, fault, bcast,
                           trace, inits, cmdcalls, sent, hist>>
       ELSE IF ~CanBorrowMut(borrow[T])
       THEN Panic("get_plugin_mut: already borrowed", T)
       ELSE IF plugins[T].ty # T
       THEN Panic("get_plugin_mut: downcast failed", T)
       ELSE /\ borrow' = [borrow EXCEPT ![T] = WRITING]
            /\ stack' = SetTop([Top EXCEPT !.heldMut = @ \cup {T}])
            /\ ret' = Ret("get_plugin_mut", "Some", T, plugins[T].inst, 0,
                          NoKey)
            /\ UNCHANGED <<commands, plugins, connections,
                           current_connection, chan, fault, bcast, trace,
                           inits, cmdcalls, sent, hist>>
    /\ calls' = Called
    /\ UNCHANGED values

\* the Ref returned by get_plugin goes out of scope
drop_ref(T) ==
    /\ InBody
    /\ Top.heldSh[T] > 0
    /\ borrow' = [borrow EXCEPT ![T] = @ - 1]
    /\ stack' = SetTop([Top EXCEPT !.heldSh[T] = @ - 1])
    /\ ret' = NoRet
    /\ UNCHANGED <<commands, plugins, connections, current_connection, chan,
                   fault, bcast, trace, inits, cmdcalls, sent, hist>>
    /\ UNCHANGED <<calls, values>>

\* the RefMut returned by get_plugin_mut goes out of scope
drop_ref_mut(T) ==
    /\ InBody
    /\ T \in Top.heldMut
    /\ borrow' = [borrow EXCEPT ![T] = UNUSED]
    /\ stack' = SetTop([Top EXCEPT !.heldMut = @ \ {T}])
    /\ ret' = NoRet
    /\ UNCHANGED <<commands, plugins, connections, current_connection, chan,
                   fault, bcast, trace, inits, cmdcalls, sent, hist>>
    /\ UNCHANGED <<calls, values>>

\* --------------------------------------------------- connection registry
\* add_connection as it would be if it set the pointer only when unset
add_connection_keep_current(account) ==
    /\ InBody
    /\ CanCall
    /\ LET key == JidToString(account)
           sink == hist.connAdds + 1
       IN /\ connections' = [connections EXCEPT
                               ![key] = [account |-> account, sink |-> sink]]
          /\ current_connection' =
                IF current_connection = NoKey THEN key
                ELSE current_connection
    /\ hist' = [hist EXCEPT !.connAdds = @ + 1, !.lastAccount = account]
    /\ ret' = NoRet
    /\ UNCHANGED <<commands, plugins, borrow, chan, stack, fault, bcast,
                   trace, inits, cmdcalls, sent>>
    /\ calls' = Called
    /\ UNCHANGED values

\* add_connection as it would be with entry().or_insert(): a connection
\* already stored under the account's string stays
add_connection_keep_channel(account) ==
    /\ InBody
    /\ CanCall
    /\ LET key == JidToString(account)
           sink == hist.connAdds + 1
       IN /\ connections' =
                IF connections[key] # NoConn THEN connections
                ELSE [connections EXCEPT
                        ![key] = [account |-> account, sink |-> sink]]
          /\ current_connection' = key
    /\ hist' = [hist EXCEPT !.connAdds = @ + 1, !.lastAccount = account]
    /\ ret' = NoRet
    /\ UNCHANGED <<commands, plugins, borrow, chan, stack, fault, bcast,
                   trace, inits, cmdcalls, sent>>
    /\ calls' = Called
    /\ UNCHANGED values

\* Aparte::add_connection
add_connection(account) ==
    /\ InBody
    /\ CanCall
    /\ LET key == JidToString(account)
           sink == hist.connAdds + 1
       IN /\ connections' = [connections EXCEPT
                               ![key] = [account |-> account, sink |-> sink]]
          /\ current_connection' = key
    /\ hist' = [hist EXCEPT !.connAdds = @ + 1, !.lastAccount = account]
    /\ ret' = NoRet
    /\ UNCHANGED <<commands, plugins, borrow, chan, stack, fault, bcast,
                   trace, inits, cmdcalls, sent>>
    /\ calls' = Called
    /\ UNCHANGED values

\* Aparte::current_connection; acct carries the returned FullJid
current_connection_call ==
    /\ InBody
    /\ CanCall
    /\ IF current_connection = NoKey
       THEN /\ ret' = Ret("current_connection", "None", NoKind, 0, 0, NoKey)
            /\ UNCHANGED fault
       ELSE IF connections[current_connection] = NoConn
       THEN /\ fault' = "current_connection: unwrap on None"
            /\ ret' = NoRet
       ELSE /\ ret' = [Ret("current_connection", "Some", NoKind, 0, 0,
                           current_connection)
                         EXCEPT !.acct =
                             connections[current_connection].account]
            /\ UNCHANGED fault
    /\ UNCHANGED <<commands, plugins, borrow, connections,
                   current_connection, chan, stack, bcast, trace, inits,
                   cmdcalls, sent, hist>>
    /\ calls' = Called
    /\ UNCHANGED values

\* the transport drops the receiving end of a channel
close_channel(s) ==
    /\ Running
    /\ chan[s].open
    /\ \E k \in Keys : connections[k].sink = s
    /\ chan' = [chan EXCEPT ![s].open = FALSE]
    /\ ret' = NoRet
    /\ UNCHANGED <<commands, plugins, borrow, connections, current_connection,
                   stack, fault, bcast, trace, inits, cmdcalls, sent, hist>>
    /\ UNCHANGED <<calls, values>>

\* Aparte::send as it would be if it posted to every connection
SendBody_to_all(element, f) ==
    /\ IF \A k \in Keys : connections[k] = NoConn
       THEN /\ fault' = "send: unwrap on None"
            /\ UNCHANGED <<chan, sent, hist>>
       ELSE \E key \in {k \in Keys : connections[k] # NoConn} :
              /\ chan' = [s \in Sinks |->
                            IF /\ chan[s].open
                               /\ \E k \in Keys : connections[k].sink = s
                            THEN [chan[s] EXCEPT !.posted = @ + 1]
                            ELSE chan[s]]
              /\ sent' = Append(sent, [elem |-> element, key |-> key,
                                       ok |-> chan[connections[key].sink].open,
                                       by |-> f.ty,
                                       kind |-> f.kind,
                                       id |-> f.id,
                                       cur |-> current_connection])
              /\ UNCHANGED <<fault, hist>>

\* body of Aparte::send, called by the code of frame f
SendBody(element, f) ==
    /\ IF \A k \in Keys : connections[k] = NoConn
       THEN /\ fault' = "send: unwrap on None"
            /\ UNCHANGED <<chan, sent, hist>>
       ELSE \E key \in {k \in Keys : connections[k] # NoConn} :
              LET s == connections[key].sink
              IN /\ IF chan[s].open
                    THEN /\ chan' = [chan EXCEPT ![s].posted = @ + 1]
                         /\ UNCHANGED hist
                    ELSE /\ hist' = [hist EXCEPT !.warns = @ + 1]
                         /\ UNCHANGED chan
                 /\ sent' = Append(sent, [elem |-> element, key |-> key,
                                          ok |-> chan[s].open,
                                          by |-> f.ty,
                                          kind |-> f.kind,
                                          id |-> f.id,
                                          cur |-> current_connection])
                 /\ UNCHANGED fault

\* Aparte::send called by arbitrary code
send(element) ==
    /\ InBody
    /\ CanCall
    /\ SendBody(element, Top)
    /\ ret' = NoRet
    /\ UNCHANGED <<commands, plugins, borrow, connections, current_connection,
                   stack, bcast, trace, inits, cmdcalls>>
    /\ calls' = Called
    /\ UNCHANGED values

\* ------------------------------------------------------------ broadcast
Ev(type, jid, msg) == [type |-> type, jid |-> jid, msg |-> msg]
EventInputs ==
    {Ev("Connected", J1, NoMsg), Ev("Disconnected", J1, NoMsg),
     Ev("Join", J1, NoMsg),
     Ev("Message", NoJid,
        [variant |-> "Incoming", id |-> "m1", body |-> "hi"])}

\* Message::log with the two strings in each other's field
Message_log_swapped(msg, uuid) ==
    [variant |-> "Log", id |-> msg, body |-> uuid]

\* Message::log, uuid the value Uuid::new_v4() draws
Message_log(msg, uuid) == [variant |-> "Log", id |-> uuid, body |-> msg]

\* entry of Aparte::event
EventEnter(ev, via, arg) ==
    /\ InRcBody
    /\ CanCall
    /\ bcast' = Append(bcast, [ev |-> ev, via |-> via, arg |-> arg,
                               all |-> Registered, done |-> FALSE,
                               caller |-> Top.op])
    /\ stack' = Push([BaseFrame EXCEPT !.op = "event",
                                       !.id = Len(bcast) + 1,
                                       !.todo = Registered,
                                       !.pc = via])
    /\ ret' = NoRet
    /\ UNCHANGED <<commands, plugins, borrow, connections, current_connection,
                   chan, fault, trace, inits, cmdcalls, sent, hist>>
    /\ calls' = Called
    /\ UNCHANGED values

\* Aparte::event called by the driver, a hook or a command handler
event(ev) == EventEnter(ev, "event", "")

\* Aparte::log
log(message) ==
    \E uuid \in Uuids :
        EventEnter(Ev("Message", NoJid, Message_log(message, uuid)), "log",
                   message)

\* one turn of the loop of Aparte::event: borrow the slot, call the hook
EventDispatch(k) ==
    /\ Running
    /\ Top.op = "event"
    /\ k \in Top.todo
    /\ IF ~CanBorrowMut(borrow[k])
       THEN Panic("event: already borrowed", k)
       ELSE /\ borrow' = [borrow EXCEPT ![k] = WRITING]
            /\ stack' = Append(SetTop([Top EXCEPT !.todo = @ \ {k}]),
                               [BaseFrame EXCEPT !.op = "on_event",
                                                 !.kind = k,
                                                 !.ty = plugins[k].ty,
                                                 !.inst = plugins[k].inst,
                                                 !.id = Top.id,
                                                 !.pc = "start"])
            /\ trace' = Append(trace, [id |-> Top.id, kind |-> k,
                                       inst |-> plugins[k].inst,
                                       ty |-> plugins[k].ty,
                                       what |-> "call",
                                       ev |-> bcast[Top.id].ev])
            /\ ret' = NoRet
            /\ UNCHANGED <<commands, plugins, connections, current_connection,
                           chan, fault, bcast, inits, cmdcalls, sent, hist>>
    /\ UNCHANGED <<calls, values>>

\* a return that drops the guards the hook took but not the borrow the
\* orchestrator took on the hook's own slot
Released_leak(f) ==
    [k \in Kinds |->
        IF k \in f.heldMut THEN UNUSED
        ELSE borrow[k] - f.heldSh[k]]

\* the guards a frame holds are dropped when it returns
Released(f) ==
    [k \in Kinds |->
        IF k = f.kind \/ k \in f.heldMut THEN UNUSED
        ELSE borrow[k] - f.heldSh[k]]

\* CarbonsPlugin::on_event as it would be if every event enabled carbons
CarbonsOnEventSend_any_event ==
    /\ Running
    /\ Top.op = "on_event" /\ Top.ty = "Carbons" /\ Top.pc = "start"
    /\ SendBody("carbons:enable", Top)
    /\ stack' = IF fault' = "none" THEN SetTop([Top EXCEPT !.pc = "done"])
                ELSE stack
    /\ ret' = NoRet
    /\ UNCHANGED <<commands, plugins, borrow, connections, current_connection,
                   bcast, trace, inits, cmdcalls>>
    /\ UNCHANGED <<calls, values>>

\* CarbonsPlugin::on_event, the Connected arm
CarbonsOnEventSend ==
    /\ Running
    /\ Top.op = "on_event" /\ Top.ty = "Carbons" /\ Top.pc = "start"
    /\ bcast[Top.id].ev.type = "Connected"
    /\ SendBody("carbons:enable", Top)
    /\ stack' = IF fault' = "none" THEN SetTop([Top EXCEPT !.pc = "done"])
                ELSE stack
    /\ ret' = NoRet
    /\ UNCHANGED <<commands, plugins, borrow, connections, current_connection,
                   bcast, trace, inits, cmdcalls>>
    /\ UNCHANGED <<calls, values>>

\* a plugin's on_event returns to the loop of Aparte::event
OnEventReturn ==
    /\ Running
    /\ Top.op = "on_event"
    /\ Top.ty = "Carbons" =>
          \/ Top.pc = "done"
          \/ bcast[Top.id].ev.type # "Connected"
    /\ borrow' = Released(Top)
    /\ stack' = Pop
    /\ trace' = Append(trace, [id |-> Top.id, kind |-> Top.kind,
                               inst |-> Top.inst, ty |-> Top.ty,
                               what |-> "ret",
                               ev |-> bcast[Top.id].ev])
    /\ ret' = NoRet
    /\ UNCHANGED <<commands, plugins, connections, current_connection, chan,
                   fault, bcast, inits, cmdcalls, sent, hist>>
    /\ UNCHANGED <<calls, values>>

\* Aparte::event as it would be if its loop could end before the last slot
EventReturnEarly ==
    /\ Running
    /\ Top.op = "event"
    /\ stack' = Pop
    /\ bcast' = [bcast EXCEPT ![Top.id].done = TRUE]
    /\ ret' = NoRet
    /\ UNCHANGED <<commands, plugins, borrow, connections, current_connection,
                   chan, fault, trace, inits, cmdcalls, sent, hist>>
    /\ UNCHANGED <<calls, values>>

\* the loop of Aparte::event is over: event (and log) return
EventReturn ==
    /\ Running
    /\ Top.op = "event"
    /\ Top.todo = {}
    /\ stack' = Pop
    /\ bcast' = [bcast EXCEPT ![Top.id].done = TRUE]
    /\ ret' = NoRet
    /\ UNCHANGED <<commands, plugins, borrow, connections, current_connection,
                   chan, fault, trace, inits, cmdcalls, sent, hist>>
    /\ UNCHANGED <<calls, values>>

\* --------------------------------------------------------------- init
\* entry of Aparte::init
init ==
    /\ AtMain
    /\ CanCall
    /\ inits' = Append(inits,
                       [visited |-> <<>>, results |-> <<>>,
                        result |-> "running", all |-> Registered,
                        before |-> [k \in Kinds |-> plugins[k].inited]])
    /\ stack' = Push([BaseFrame EXCEPT !.op = "init",
                                       !.id = Len(inits) + 1,
                                       !.todo = Registered])
    /\ ret' = NoRet
    /\ UNCHANGED <<commands, plugins, borrow, connections, current_connection,
                   chan, fault, bcast, trace, cmdcalls, sent, hist>>
    /\ calls' = Called
    /\ UNCHANGED values

\* one turn of the loop of Aparte::init: borrow the slot, call the hook
InitDispatch(k) ==
    /\ Running
    /\ Top.op = "init"
    /\ k \in Top.todo
    /\ IF ~CanBorrowMut(borrow[k])
       THEN Panic("init: already borrowed", k)
       ELSE /\ borrow' = [borrow EXCEPT ![k] = WRITING]
            /\ plugins' = [plugins EXCEPT ![k].inited = @ + 1]
            /\ inits' = [inits EXCEPT ![Top.id].visited = Append(@, k)]
            /\ stack' = Append(SetTop([Top EXCEPT !.todo = @ \ {k}]),
                               [BaseFrame EXCEPT !.op = "init_hook",
                                                 !.kind = k,
                                                 !.ty = plugins[k].ty,
                                                 !.inst = plugins[k].inst,
                                                 !.id = Top.id,
                                                 !.pc = "start"])
            /\ ret' = NoRet
            /\ UNCHANGED <<commands, connections, current_connection, chan,
                           fault, bcast, trace, cmdcalls, sent, hist>>
    /\ UNCHANGED <<calls, values>>

\* CarbonsPlugin::init, line 28: get_plugin_mut::<disco::Disco>().unwrap()
CarbonsInitGet ==
    /\ Running
    /\ Top.op = "init_hook" /\ Top.ty = "Carbons" /\ Top.pc = "start"
    /\ IF plugins["Disco"] = NoPlugin
       THEN Panic("CarbonsPlugin::init: unwrap on None", "Disco")
       ELSE IF ~CanBorrowMut(borrow["Disco"])
       THEN Panic("get_plugin_mut: already borrowed", "Disco")
       ELSE IF plugins["Disco"].ty # "Disco"
       THEN Panic("get_plugin_mut: downcast failed", "Disco")
       ELSE /\ borrow' = [borrow EXCEPT !["Disco"] = WRITING]
            /\ stack' = SetTop([Top EXCEPT !.heldMut = @ \cup {"Disco"},
                                           !.pc = "got"])
            /\ ret' = NoRet
            /\ UNCHANGED <<commands, plugins, connections, current_connection,
                           chan, fault, bcast, trace, inits, cmdcalls, sent,
                           hist>>
    /\ UNCHANGED <<calls, values>>

\* Aparte::init as it would be if it dropped the result of the hook
InitHookReturnContinue(r) ==
    /\ Running
    /\ Top.op = "init_hook"
    /\ Top.ty = "Carbons" => Top.pc = "got"
    /\ borrow' = [k \in Kinds |->
                    IF k = Top.kind \/ k \in Top.heldMut THEN UNUSED
                    ELSE borrow[k] - Top.heldSh[k]]
    /\ stack' = Pop
    /\ inits' = [inits EXCEPT ![Top.id].results = Append(@, r)]
    /\ ret' = NoRet
    /\ UNCHANGED <<commands, plugins, connections, current_connection, chan,
                   fault, bcast, trace, cmdcalls, sent, hist>>
    /\ UNCHANGED <<calls, values>>

\* a plugin's init hook returns r to the loop of Aparte::init, which
\* goes on when r is Ok and returns r at once when it is Err
InitHookReturn(r) ==
    /\ Running
    /\ Top.op = "init_hook"
    /\ Top.ty = "Carbons" => Top.pc = "got"
    /\ borrow' = Released(Top)
    /\ IF r = "Ok"
       THEN /\ stack' = Pop
            /\ inits' = [inits EXCEPT ![Top.id].results = Append(@, r)]
            /\ ret' = NoRet
       ELSE /\ stack' = SubSeq(stack, 1, Len(stack) - 2)
            /\ inits' = [inits EXCEPT ![Top.id].results = Append(@, r),
                                      ![Top.id].result = "Err"]
            /\ ret' = Ret("init", "Err", Top.kind, Top.inst, Top.id, NoKey)
    /\ UNCHANGED <<commands, plugins, connections, current_connection, chan,
                   fault, bcast, trace, cmdcalls, sent, hist>>
    /\ UNCHANGED <<calls, values>>

\* the loop of Aparte::init is over
InitReturn ==
    /\ Running
    /\ Top.op = "init"
    /\ Top.todo = {}
    /\ stack' = Pop
    /\ inits' = [inits EXCEPT ![Top.id].result = "Ok"]
    /\ ret' = Ret("init", "Ok", NoKind, 0, Top.id, NoKey)
    /\ UNCHANGED <<commands, plugins, borrow, connections,
                   current_connection, chan, fault, bcast, trace, cmdcalls,
                   sent, hist>>
    /\ UNCHANGED <<calls, values>>

\* ------------------------------------------------------------- commands
\* Aparte::parse_command
parse_command(name) ==
    /\ InRcBody
    /\ CanCall
    /\ IF commands[name] = NoCmd
       THEN /\ cmdcalls' = Append(cmdcalls,
                                  [name |-> name, invoked |-> <<>>,
                                   last |-> hist.lastCmd[name],
                                   handlerResult |-> "none",
                                   result |-> "Err"])
            /\ ret' = Ret("parse_command", "Err", NoKind, 0,
                          Len(cmdcalls) + 1, name)
            /\ UNCHANGED stack
       ELSE /\ cmdcalls' = Append(cmdcalls,
                                  [name |-> name,
                                   invoked |-> <<commands[name]>>,
                                   last |-> hist.lastCmd[name],
                                   handlerResult |-> "none",
                                   result |-> "running"])
            /\ stack' = Push([BaseFrame EXCEPT !.op = "command",
                                               !.id = Len(cmdcalls) + 1,
                                               !.pc = commands[name]])
            /\ ret' = NoRet
    /\ UNCHANGED <<commands, plugins, borrow, connections,
                   current_connection, chan, fault, bcast, trace, inits,
                   sent, hist>>
    /\ calls' = Called
    /\ UNCHANGED values

\* the handler returns r, which parse_command returns to its caller
CommandReturn(r) ==
    /\ Running
    /\ Top.op = "command"
    /\ borrow' = Released(Top)
    /\ stack' = Pop
    /\ cmdcalls' = [cmdcalls EXCEPT ![Top.id].handlerResult = r,
                                    ![Top.id].result = r]
    /\ ret' = Ret("parse_command", r, NoKind, 0, Top.id,
                  cmdcalls[Top.id].name)
    /\ UNCHANGED <<commands, plugins, connections, current_connection, chan,
                   fault, bcast, trace, inits, sent, hist>>
    /\ UNCHANGED <<calls, values>>

\* -------------------------------------------------------- domain model
\* BareJid from FullJid (`.into()`): the resource is dropped
FullToBare_keep(full) == full

FullToBare(full) == [node |-> full.node, domain |-> full.domain]

\* the Jid enum: Jid::Bare(BareJid), Jid::Full(FullJid)
JidBare(bare) == [tag |-> "Bare", jid |-> bare]
JidFull(full) == [tag |-> "Full", jid |-> full]

BareToString(b) ==
    IF b.node = "" THEN b.domain ELSE b.node \o "@" \o b.domain

\* Option values: None is <<>>, Some(x) is <<x>>
None == <<>>
Some(x) == <<x>>

\* the `let from = match from_full {..}` of the four constructors
BareOf(jid) ==
    IF jid.tag = "Bare" THEN jid.jid ELSE FullToBare(jid.jid)

\* Message::incoming_chat
incoming_chat(id, timestamp, from_full, to_full, body) ==
    LET from == BareOf(from_full)
        to == BareOf(to_full)
    IN [variant |-> "Incoming", kind |-> "Chat", id |-> id,
        timestamp |-> timestamp, from |-> from, from_full |-> from_full,
        to |-> to, to_full |-> to_full, body |-> body]

\* Message::outgoing_chat
outgoing_chat(id, timestamp, from_full, to_full, body) ==
    LET from == BareOf(from_full)
        to == BareOf(to_full)
    IN [variant |-> "Outgoing", kind |-> "Chat", id |-> id,
        timestamp |-> timestamp, from |-> from, from_full |-> from_full,
        to |-> to, to_full |-> to_full, body |-> body]

\* Message::incoming_groupchat
incoming_groupchat(id, timestamp, from_full, to_full, body) ==
    LET from == BareOf(from_full)
        to == BareOf(to_full)
    IN [variant |-> "Incoming", kind |-> "Groupchat", id |-> id,
        timestamp |-> timestamp, from |-> from, from_full |-> from_full,
        to |-> to, to_full |-> to_full, body |-> body]

\* Message::outgoing_groupchat
outgoing_groupchat(id, timestamp, from_full, to_full, body) ==
    LET from == BareOf(from_full)
        to == BareOf(to_full)
    IN [variant |-> "Outgoing", kind |-> "Groupchat", id |-> id,
        timestamp |-> timestamp, from |-> from, from_full |-> from_full,
        to |-> to, to_full |-> to_full, body |-> body]

\* Message::log with the value Utc::now() returns
Message_log_at(msg, uuid, now) ==
    Message_log(msg, uuid) @@ [timestamp |-> now]

\* the identifier the matches of PartialEq::eq and Hash::hash select
MessageId(m) ==
    CASE m.variant = "Log" -> m.id
      [] m.variant \in {"Incoming", "Outgoing"} /\ m.kind = "Chat" -> m.id
      [] m.variant \in {"Incoming", "Outgoing"} /\ m.kind = "Groupchat" ->
            m.id

\* equality as #[derive(PartialEq)] would define it
MessageEq_derived(a, b) == a = b

\* impl PartialEq for Message
MessageEq(a, b) == MessageId(a) = MessageId(b)

\* impl Hash for Message: what is fed to the hasher
MessageHash(m) == <<MessageId(m)>>

\* xmpp_parsers::message::Message::new(to)
XmppMessageNew(to) ==
    [from |-> None, to |-> to, id |-> None, type_ |-> "Chat", bodies |-> {}]

\* BTreeMap::insert on a map kept as a set of <<key, value>> pairs
MapInsert(map, key, value) ==
    {e \in map : e[1] # key} \cup {<<key, value>>}

\* xmpp_message.into(): the <message/> element with its attributes and
\* its <body/> children, one <<xml:lang, text>> pair each
ElementFrom(m) ==
    [name |-> "message",
     from |-> IF m.from = None THEN None ELSE Some(BareToString(m.from[1].jid)),
     to |-> IF m.to = None THEN None ELSE Some(BareToString(m.to[1].jid)),
     id |-> m.id,
     type |-> IF m.type_ = "Chat" THEN "chat" ELSE "groupchat",
     bodies |-> m.bodies]

NoElement == [name |-> "none"]
Ok(element) == [ok |-> TRUE, element |-> element]
Err == [ok |-> FALSE, element |-> NoElement]

\* the conversion as it would be if incoming messages were converted too
try_from_any_direction(message) ==
    CASE message.variant = "Log" -> Err
      [] message.variant # "Log" /\ message.kind = "Chat" ->
            LET m0 == XmppMessageNew(Some(JidBare(message.to)))
                m1 == [m0 EXCEPT !.id = Some(message.id)]
                m2 == [m1 EXCEPT !.type_ = "Chat"]
                m3 == [m2 EXCEPT !.bodies =
                                    MapInsert(@, "", message.body)]
            IN Ok(ElementFrom(m3))
      [] message.variant # "Log" /\ message.kind = "Groupchat" ->
            LET m0 == XmppMessageNew(Some(JidBare(message.to)))
                m1 == [m0 EXCEPT !.id = Some(message.id)]
                m2 == [m1 EXCEPT !.type_ = "Groupchat"]
                m3 == [m2 EXCEPT !.bodies =
                                    MapInsert(@, "", message.body)]
            IN Ok(ElementFrom(m3))

\* the conversion as it would be if the Groupchat arm left the type alone
try_from_default_type(message) ==
    CASE message.variant = "Log" -> Err
      [] message.variant = "Incoming" -> Err
      [] message.variant = "Outgoing" ->
            LET m0 == XmppMessageNew(Some(JidBare(message.to)))
                m1 == [m0 EXCEPT !.id = Some(message.id)]
                m3 == [m1 EXCEPT !.bodies =
                                    MapInsert(@, "", message.body)]
            IN Ok(ElementFrom(m3))

\* impl TryFrom<Message> for xmpp_parsers::Element
try_from(message) ==
    CASE message.variant = "Log" -> Err
      [] message.variant = "Incoming" -> Err
      [] message.variant = "Outgoing" /\ message.kind = "Chat" ->
            LET m0 == XmppMessageNew(Some(JidBare(message.to)))
                m1 == [m0 EXCEPT !.id = Some(message.id)]
                m2 == [m1 EXCEPT !.type_ = "Chat"]
                m3 == [m2 EXCEPT !.bodies =
                                    MapInsert(@, "", message.body)]
            IN Ok(ElementFrom(m3))
      [] message.variant = "Outgoing" /\ message.kind = "Groupchat" ->
            LET m0 == XmppMessageNew(Some(JidBare(message.to)))
                m1 == [m0 EXCEPT !.id = Some(message.id)]
                m2 == [m1 EXCEPT !.type_ = "Groupchat"]
                m3 == [m2 EXCEPT !.bodies =
                                    MapInsert(@, "", message.body)]
            IN Ok(ElementFrom(m3))

\* equality of contacts as #[derive(PartialEq)] would define it
ContactEq_derived(a, b) == a = b

\* impl PartialEq for Contact
ContactEq(a, b) == a.jid = b.jid

\* impl Hash for Contact: what is fed to the hasher
ContactHash(c) == <<c.jid.node, c.jid.domain>>

\* inputs of the evaluations
Constructors ==
    {"incoming_chat", "outgoing_chat", "incoming_groupchat",
     "outgoing_groupchat", "log"}
Times == {1, 2}
Bodies == {"hi", "x"}
Senders == {JidBare(FullToBare(J1)), JidFull(J2)}
Recipients == {JidBare(FullToBare(J2)), JidFull(J1)}
MessageArgs ==
    [ctor : Constructors, id : Uuids, timestamp : Times,
     from_full : Senders, to_full : Recipients, body : Bodies]

ContactJids == {FullToBare(J1), FullToBare(J2), FullToBare(J3)}
Contacts ==
    [jid : ContactJids, name : {None, Some("n")},
     subscription : {"None", "Both"},
     presence : {"Unavailable", "Available"},
     groups : {<<>>, <<"g">>}]

\* the message a constructor builds from its arguments; for log, id and
\* timestamp are what the generator and the clock return
Construct(p) ==
    CASE p.ctor = "incoming_chat" ->
            incoming_chat(p.id, p.timestamp, p.from_full, p.to_full, p.body)
      [] p.ctor = "outgoing_chat" ->
            outgoing_chat(p.id, p.timestamp, p.from_full, p.to_full, p.body)
      [] p.ctor = "incoming_groupchat" ->
            incoming_groupchat(p.id, p.timestamp, p.from_full, p.to_full,
                               p.body)
      [] p.ctor = "outgoing_groupchat" ->
            outgoing_groupchat(p.id, p.timestamp, p.from_full, p.to_full,
                               p.body)
      [] p.ctor = "log" -> Message_log_at(p.body, p.id, p.timestamp)

\* two messages are to be built from two argument lists
InitMessage ==
    /\ Aparte_new
    /\ values \in {[pc |-> "args", x |-> p, y |-> q] : p, q \in MessageArgs}

\* the constructors are applied
BuildMessages ==
    /\ values.pc = "args"
    /\ values' = [pc |-> "built", x |-> values.x, y |-> values.y,
                  a |-> Construct(values.x), b |-> Construct(values.y)]
    /\ UNCHANGED <<commands, plugins, borrow, connections, current_connection,
                   chan, stack, fault, ret, bcast, trace, inits, cmdcalls,
                   sent, hist, calls>>

\* a == b and the two hashes are evaluated
CompareMessages ==
    /\ values.pc = "built"
    /\ values' = [pc |-> "compared", x |-> values.x, y |-> values.y,
                  a |-> values.a, b |-> values.b,
                  eq |-> MessageEq(values.a, values.b),
                  hash_a |-> MessageHash(values.a),
                  hash_b |-> MessageHash(values.b)]
    /\ UNCHANGED <<commands, plugins, borrow, connections, current_connection,
                   chan, stack, fault, ret, bcast, trace, inits, cmdcalls,
                   sent, hist, calls>>

\* Element::try_from(a) is evaluated
ConvertMessage ==
    /\ values.pc = "built"
    /\ values' = [pc |-> "converted", x |-> values.x, a |-> values.a,
                  result |-> try_from(values.a)]
    /\ UNCHANGED <<commands, plugins, borrow, connections, current_connection,
                   chan, stack, fault, ret, bcast, trace, inits, cmdcalls,
                   sent, hist, calls>>

\* two contacts are to be compared
InitContact ==
    /\ Aparte_new
    /\ values \in {[pc |-> "contacts", a |-> c, b |-> d] : c, d \in Contacts}

\* a == b and the two hashes are evaluated
CompareContacts ==
    /\ values.pc = "contacts"
    /\ values' = [pc |-> "compared", a |-> values.a, b |-> values.b,
                  eq |-> ContactEq(values.a, values.b),
                  hash_a |-> ContactHash(values.a),
                  hash_b |-> ContactHash(values.b)]
    /\ UNCHANGED <<commands, plugins, borrow, connections, current_connection,
                   chan, stack, fault, ret, bcast, trace, inits, cmdcalls,
                   sent, hist, calls>>

\* ------------------------------------------------------- specifications
Results == {"Ok", "Err"}

Lookups ==
    \/ \E T \in Kinds : get_plugin(T)
    \/ \E T \in Kinds : get_plugin_mut(T)
    \/ \E T \in Kinds : drop_ref(T)
    \/ \E T \in Kinds : drop_ref_mut(T)

Dispatching ==
    \/ \E k \in Kinds : EventDispatch(k)
    \/ OnEventReturn
    \/ EventReturn

Broadcasts ==
    \/ \E ev \in EventInputs : event(ev)
    \/ \E b \in LogBodies : log(b)
    \/ Dispatching
    \/ CarbonsOnEventSend

Connections ==
    \/ \E j \in Jids : add_connection(j)
    \/ current_connection_call
    \/ \E s \in Sinks : close_channel(s)
    \/ send("stanza")

Inits ==
    \/ init
    \/ \E k \in Kinds : InitDispatch(k)
    \/ CarbonsInitGet
    \/ \E r \in Results : InitHookReturn(r)
    \/ InitReturn

Commands ==
    \/ \E n \in CmdNames, h \in Handlers : add_command(n, h)
    \/ \E n \in CmdNames : parse_command(n)
    \/ \E r \in Results : CommandReturn(r)

Next ==
    \/ \E T \in Kinds, U \in Kinds : add_plugin(T, U)
    \/ Lookups
    \/ Broadcasts
    \/ Connections
    \/ Inits
    \/ Commands

Spec == Init /\ [][Next]_vars

\* the plugins: registration, lookups, initialization, broadcasts of
\* events and the traffic the hooks send
NextDispatch ==
    \/ \E T \in Kinds, U \in Kinds : add_plugin(T, U)
    \/ Lookups
    \/ Inits
    \/ \E ev \in EventInputs : event(ev)
    \/ Dispatching
    \/ CarbonsOnEventSend
    \/ \E j \in Jids : add_connection(j)
    \/ send("stanza")

SpecDispatch == Init /\ [][NextDispatch]_vars

\* the broadcasts of log messages
NextLog ==
    \/ \E T \in Kinds, U \in Kinds : add_plugin(T, U)
    \/ \E b \in LogBodies : log(b)
    \/ Dispatching

SpecLog == Init /\ [][NextLog]_vars

\* the connection registry
NextConn == Connections

SpecConn == Init /\ [][NextConn]_vars

\* a session: connections come and go while events are broadcast
NextSession ==
    \/ \E T \in Kinds, U \in Kinds : add_plugin(T, U)
    \/ \E ev \in EventInputs : event(ev)
    \/ Dispatching
    \/ CarbonsOnEventSend
    \/ Connections

SpecSession == Init /\ [][NextSession]_vars

\* the command dispatcher
NextCmd == Commands

SpecCmd == Init /\ [][NextCmd]_vars

\* the message model: constructors, equality, conversion
NextMessage ==
    \/ BuildMessages
    \/ CompareMessages
    \/ ConvertMessage

SpecMessage == InitMessage /\ [][NextMessage]_vars

\* the contact model
NextContact == CompareContacts

SpecContact == InitContact /\ [][NextContact]_vars

\* ------------------------------------------------------------- helpers
Hooks == {"on_event", "init_hook"}
Lookup == {"get_plugin", "get_plugin_mut"}

\* hook invocations of broadcast b on slot k recorded in the trace
Calls(b, k, what) ==
    Cardinality({i \in 1..Len(trace) :
                    /\ trace[i].id = b
                    /\ trace[i].kind = k
                    /\ trace[i].what = what})

SeqSet(q) == {q[i] : i \in 1..Len(q)}
NoDup(q) == \A i, j \in 1..Len(q) : q[i] = q[j] => i = j

\* a hook of the plugin stored under K is running (or waits for a callee)
InHook(K) ==
    \E i \in 1..Len(stack) : stack[i].op \in Hooks /\ stack[i].kind = K

\* exclusive guards (RefMut) alive on slot k
Exclusive(k) ==
    Cardinality({i \in 1..Len(stack) :
                    stack[i].op \in Hooks /\ stack[i].kind = k})
    + Cardinality({i \in 1..Len(stack) : k \in stack[i].heldMut})

\* shared guards (Ref) alive on slot k, in the frames 1..n
RECURSIVE SharedUpTo(_, _)
SharedUpTo(k, n) ==
    IF n = 0 THEN 0 ELSE stack[n].heldSh[k] + SharedUpTo(k, n - 1)
Shared(k) == SharedUpTo(k, Len(stack))

\* ---------------------------------------------------------------- claims

\* C1: a call of Aparte::event that has returned has invoked the on_event
\* hook of every plugin registered at the call exactly once, with the
\* event of the call, and each of these invocations has returned; no
\* broadcast invokes a hook twice or on a slot that is not registered.
C1_EventInvokesEachOnce ==
    \A b \in 1..Len(bcast) :
        /\ \A k \in Kinds :
              /\ Calls(b, k, "call") <= 1
              /\ Calls(b, k, "ret") <= Calls(b, k, "call")
              /\ k \notin bcast[b].all => Calls(b, k, "call") = 0
        /\ \A i \in 1..Len(trace) :
              trace[i].id = b => trace[i].ev = bcast[b].ev
        /\ bcast[b].done =>
              \A k \in bcast[b].all :
                  Calls(b, k, "call") = 1 /\ Calls(b, k, "ret") = 1

C1_Witness ==
    \E b \in 1..Len(bcast) :
        /\ bcast[b].done
        /\ bcast[b].via = "event"
        /\ Cardinality(bcast[b].all) = 2

\* C2: a broadcast started by a plugin's on_event hook runs to its end:
\* when no caller holds a guard of its own, the loop of the nested
\* Aparte::event never dies on a borrow of a slot.
C2_NestedBroadcastCompletes ==
    ~ /\ fault = "event: already borrowed"
      /\ Top.op = "event"
      /\ bcast[Top.id].caller = "on_event"
      /\ \A i \in 1..Len(stack) : NoGuards(stack[i])

\* C3: no slot ever carries two guards of which one is exclusive, and a
\* lookup of kind K made while a hook of the plugin stored under K runs
\* ends in a panic: it grants nothing and leaves the stack as it is.
NoSecondBorrow ==
    \A k \in Kinds :
        /\ Exclusive(k) <= 1
        /\ Exclusive(k) = 1 => Shared(k) = 0 /\ borrow[k] = WRITING
        /\ Exclusive(k) = 0 => borrow[k] = Shared(k)

C3_ReentrantBorrowFaults ==
    /\ []NoSecondBorrow
    /\ [][\A K \in Kinds :
            ( /\ InHook(K)
              /\ \/ get_plugin(K)
                 \/ get_plugin_mut(K)
                 \/ K = "Disco" /\ CarbonsInitGet )
            => /\ fault' \in {"get_plugin: already mutably borrowed",
                              "get_plugin_mut: already borrowed"}
               /\ borrow' = borrow
               /\ stack' = stack]_vars

C3_Witness ==
    /\ fault \in {"get_plugin: already mutably borrowed",
                  "get_plugin_mut: already borrowed"}
    /\ Top.op \in Hooks
    /\ ret.kind = Top.kind

\* C4: a lookup of a kind that was never registered returns None, and a
\* lookup of a kind whose stored instance has another concrete type
\* panics: it returns neither a reference nor None.
C4_LookupNoneOrFault ==
    [][\A T \in Kinds :
          (get_plugin(T) \/ get_plugin_mut(T)) =>
             /\ hist.lastPlugin[T] = 0 =>
                   /\ fault' = "none"
                   /\ ret'.op \in Lookup
                   /\ ret'.result = "None"
                   /\ ret'.kind = T
             /\ (plugins[T] # NoPlugin /\ plugins[T].ty # T) =>
                   /\ fault' # "none"
                   /\ ret'.op = "panic"
                   /\ stack' = stack
                   /\ borrow' = borrow]_vars

C4_Witness ==
    /\ fault \in {"get_plugin: downcast failed",
                  "get_plugin_mut: downcast failed"}
    /\ plugins[ret.kind] # NoPlugin
    /\ plugins[ret.kind].ty # ret.kind

\* C5: each kind holds the instance of its latest add_plugin and no
\* other: the hooks run on that instance, a lookup that returns a
\* reference returns that instance, and add_plugin never returns Err.
LatestInstanceOnly ==
    /\ \A k \in Kinds : plugins[k].inst = hist.lastPlugin[k]
    /\ \A i \in 1..Len(stack) :
          stack[i].op \in Hooks =>
              stack[i].inst = hist.lastPlugin[stack[i].kind]
    /\ hist.addResult \in {"none", "Ok"}

C5_LastRegistrationWins ==
    /\ []LatestInstanceOnly
    /\ [][\A T \in Kinds :
            ( /\ get_plugin(T) \/ get_plugin_mut(T)
              /\ ret'.result = "Some" )
            => ret'.inst = hist.lastPlugin[T]]_vars

C5_Witness ==
    /\ ret.op \in Lookup
    /\ ret.result = "Some"
    /\ ret.inst = 2
    /\ hist.lastPlugin[ret.kind] = 2
    /\ \A k \in Kinds \ {ret.kind} : hist.lastPlugin[k] = 0

\* C6: current_connection() returns None when no connection was ever
\* added and the account of the latest add_connection otherwise.
C6_CurrentIsLastAdded ==
    [][current_connection_call =>
          /\ fault' = "none"
          /\ ret'.op = "current_connection"
          /\ IF hist.connAdds = 0
             THEN ret'.result = "None"
             ELSE ret'.result = "Some" /\ ret'.acct = hist.lastAccount]_vars

C6_Witness ==
    /\ ret.op = "current_connection"
    /\ ret.result = "Some"
    /\ hist.connAdds = 2
    /\ ret.acct = hist.lastAccount
    /\ Cardinality({k \in Keys : connections[k] # NoConn}) = 2

\* C7: Aparte::send returns normally in every state of the connection
\* registry, the empty registry included.
C7_SendReturnsNormally == fault # "send: unwrap on None"

\* C8: Aparte::init runs each hook at most once per call; when it returns
\* Ok every registered plugin's hook has run once and returned Ok; a hook
\* that returns Err is the last one run and init returns Err with it; the
\* plugins whose hook ran keep what init did to them and the others are
\* untouched.
InitFailsFast ==
    \A i \in 1..Len(inits) :
        /\ NoDup(inits[i].visited)
        /\ SeqSet(inits[i].visited) \subseteq inits[i].all
        /\ \A n \in 1..Len(inits[i].results) :
              inits[i].results[n] = "Err" =>
                  /\ n = Len(inits[i].visited)
                  /\ inits[i].result = "Err"
                  /\ \A j \in 1..Len(stack) :
                        stack[j].op \in {"init", "init_hook"} =>
                            stack[j].id # i
        /\ inits[i].result = "Ok" =>
              /\ SeqSet(inits[i].visited) = inits[i].all
              /\ Len(inits[i].results) = Len(inits[i].visited)
              /\ SeqSet(inits[i].results) \subseteq {"Ok"}
        /\ inits[i].result = "Err" =>
              /\ Len(inits[i].results) = Len(inits[i].visited)
              /\ inits[i].results[Len(inits[i].results)] = "Err"

C8_InitOnceNoRollback ==
    /\ []InitFailsFast
    /\ [][(ret' # ret /\ ret'.op = "init") =>
            /\ Len(stack') = 1
            /\ ret'.result = inits'[ret'.id].result
            /\ \A k \in Kinds :
                  plugins'[k].inited =
                      inits'[ret'.id].before[k]
                      + (IF k \in SeqSet(inits'[ret'.id].visited)
                         THEN 1 ELSE 0)]_vars

C8_Witness ==
    \E i \in 1..Len(inits) :
        /\ inits[i].result = "Err"
        /\ ret.op = "init" /\ ret.result = "Err" /\ ret.id = i
        /\ Cardinality(inits[i].all) = 2
        /\ Len(inits[i].visited) = 1
        /\ \A k \in inits[i].all \ SeqSet(inits[i].visited) :
              plugins[k].inited = 0

\* C9: parse_command on a name without a handler returns Err and calls
\* no handler; on a registered name it calls the handler of the latest
\* add_command for that name, once, and returns what the handler returns.
C9_CommandDispatch ==
    \A c \in 1..Len(cmdcalls) :
        /\ Len(cmdcalls[c].invoked) <= 1
        /\ cmdcalls[c].last = NoCmd =>
              /\ cmdcalls[c].invoked = <<>>
              /\ cmdcalls[c].result = "Err"
        /\ cmdcalls[c].last # NoCmd =>
              /\ cmdcalls[c].invoked = <<cmdcalls[c].last>>
              /\ cmdcalls[c].result \in {"running",
                                         cmdcalls[c].handlerResult}
              /\ cmdcalls[c].result = "running" <=>
                    \E j \in 1..Len(stack) :
                        stack[j].op = "command" /\ stack[j].id = c

C9_Witness ==
    \E c \in 1..Len(cmdcalls) :
        /\ cmdcalls[c].result = "Ok"
        /\ cmdcalls[c].invoked = <<"h2">>
        /\ hist.cmdAdds = 2
        /\ commands[cmdcalls[c].name] = "h2"
        /\ \A n \in CmdNames \ {cmdcalls[c].name} : commands[n] = NoCmd
        /\ ret.op = "parse_command" /\ ret.result = "Ok" /\ ret.id = c

\* C10 as stated: every log(x) broadcasts a Log message with body x and a
\* non-empty identifier that no earlier log message of the session has.
C10_LogIdNeverReused ==
    \A b \in 1..Len(bcast) :
        bcast[b].via = "log" =>
            /\ bcast[b].ev.msg.body = bcast[b].arg
            /\ bcast[b].ev.msg.id # ""
            /\ \A a \in 1..(b - 1) :
                  bcast[a].via = "log" =>
                      bcast[a].ev.msg.id # bcast[b].ev.msg.id

\* C10 as amended: every log(x) broadcasts one Event::Message holding a
\* Log message with body x and a non-empty identifier drawn by the uuid
\* generator; when log returns every registered plugin's hook has run
\* once on that event.
C10_LogBroadcast ==
    \A b \in 1..Len(bcast) :
        bcast[b].via = "log" =>
            /\ bcast[b].ev.type = "Message"
            /\ bcast[b].ev.msg.variant = "Log"
            /\ bcast[b].ev.msg.body = bcast[b].arg
            /\ bcast[b].ev.msg.id # ""
            /\ bcast[b].ev.msg.id \in Uuids
            /\ \A i \in 1..Len(trace) :
                  trace[i].id = b => trace[i].ev = bcast[b].ev
            /\ \A k \in Kinds : Calls(b, k, "call") <= 1
            /\ bcast[b].done =>
                  \A k \in bcast[b].all :
                      Calls(b, k, "call") = 1 /\ Calls(b, k, "ret") = 1

C10_Witness ==
    \E a, b \in 1..Len(bcast) :
        /\ a < b
        /\ bcast[a].via = "log" /\ bcast[b].via = "log"
        /\ bcast[a].done /\ bcast[b].done
        /\ bcast[b].all # {}
        /\ bcast[a].ev.msg.id = bcast[b].ev.msg.id

\* C11: for every two messages a and b, of any variant, a == b evaluates
\* to true exactly when their identifier strings are equal; direction,
\* kind, body and timestamp play no part (and equal messages hash alike).
C11_EqualIffSameId ==
    values.pc = "compared" =>
        /\ values.eq <=> (values.a.id = values.b.id)
        /\ values.eq => values.hash_a = values.hash_b

C11_Witness ==
    /\ values.pc = "compared"
    /\ values.eq
    /\ values.a.variant = "Log"
    /\ values.b.variant = "Outgoing" /\ values.b.kind = "Groupchat"
    /\ values.a.body # values.b.body
    /\ values.a.timestamp # values.b.timestamp

\* C12: the conversion of a message to a protocol element returns Err for
\* every Log message and every Incoming message, chat or groupchat, and
\* Ok for every Outgoing message.
C12_ConversionFailsUnlessOutgoing ==
    values.pc = "converted" =>
        /\ values.a.variant \in {"Log", "Incoming"} => values.result = Err
        /\ values.a.variant = "Outgoing" =>
              values.result.ok /\ values.result.element # NoElement

C12_Witness ==
    /\ values.pc = "converted"
    /\ values.a.variant = "Incoming" /\ values.a.kind = "Groupchat"
    /\ values.result = Err

\* C13: the element an Outgoing message converts to is a message stanza
\* addressed to the bare recipient, with the identifier of the message,
\* the type "chat" for a Chat and "groupchat" for a Groupchat, and one
\* body, the body of the message, under the empty language key.
C13_OutgoingElement ==
    (values.pc = "converted" /\ values.a.variant = "Outgoing") =>
        LET e == values.result.element
            to_full == values.x.to_full.jid
        IN /\ values.result.ok
           /\ e.name = "message"
           /\ e.to = <<BareToString(values.a.to)>>
           /\ e.to = <<to_full.node \o "@" \o to_full.domain>>
           /\ e.id = <<values.a.id>>
           /\ values.a.kind = "Chat" => e.type = "chat"
           /\ values.a.kind = "Groupchat" => e.type = "groupchat"
           /\ e.bodies = {<<"", values.a.body>>}

C13_Witness ==
    /\ values.pc = "converted"
    /\ values.a.variant = "Outgoing" /\ values.a.kind = "Groupchat"
    /\ values.x.to_full = JidFull(J1)
    /\ values.result.ok
    /\ values.result.element.to = <<"a@b">>
    /\ values.result.element.type = "groupchat"

\* C14: the hook invocations of two broadcasts are never interleaved: in
\* the order in which hooks are entered and left, everything that belongs
\* to one broadcast comes before everything that belongs to the other;
\* this holds for a broadcast a hook starts as well, whose caller never
\* resumes.
C14_BroadcastsSequential ==
    \A i, j, k \in 1..Len(trace) :
        (i < j /\ j < k /\ trace[i].id = trace[k].id) =>
            trace[j].id = trace[i].id

C14_Witness ==
    \E i, j \in 1..Len(trace) :
        /\ i < j
        /\ trace[i].id # trace[j].id
        /\ bcast[trace[i].id].caller = "main"
        /\ bcast[trace[j].id].caller = "on_event"

\* C15: two contacts are equal exactly when their jid fields are equal,
\* whatever their name, subscription, presence and groups, and equal
\* contacts have the same hash: the hash is computed from the jid alone.
C15_ContactIdentity ==
    values.pc = "compared" =>
        /\ values.eq <=> (values.a.jid = values.b.jid)
        /\ values.eq => values.hash_a = values.hash_b
        /\ values.hash_a = <<values.a.jid.node, values.a.jid.domain>>

C15_Witness ==
    /\ values.pc = "compared"
    /\ values.eq
    /\ values.hash_a = values.hash_b
    /\ values.a.name # values.b.name
    /\ values.a.subscription # values.b.subscription
    /\ values.a.presence # values.b.presence
    /\ values.a.groups # values.b.groups

\* C17: each of the four chat constructors builds a message of its own
\* direction and kind; from_full and to_full are the arguments as given,
\* from and to are their bare forms (a bare argument as it is, a full one
\* without its resource), and id, timestamp and body are the arguments.
BareForm(msgjid, argjid) ==
    /\ DOMAIN msgjid = {"node", "domain"}
    /\ msgjid.node = argjid.jid.node
    /\ msgjid.domain = argjid.jid.domain
    /\ argjid.tag = "Bare" => msgjid = argjid.jid

C17_ConstructorsNormalize ==
    \A v \in {"x", "y"} :
        LET p == values[v]
            m == IF v = "x" THEN values.a ELSE values.b
        IN (values.pc = "built" /\ p.ctor # "log") =>
              /\ m.variant = (IF p.ctor \in {"incoming_chat",
                                             "incoming_groupchat"}
                              THEN "Incoming" ELSE "Outgoing")
              /\ m.kind = (IF p.ctor \in {"incoming_chat", "outgoing_chat"}
                           THEN "Chat" ELSE "Groupchat")
              /\ m.from_full = p.from_full
              /\ m.to_full = p.to_full
              /\ BareForm(m.from, p.from_full)
              /\ BareForm(m.to, p.to_full)
              /\ m.id = p.id
              /\ m.timestamp = p.timestamp
              /\ m.body = p.body

C17_Witness ==
    /\ values.pc = "built"
    /\ values.x.ctor = "outgoing_groupchat"
    /\ values.x.from_full = JidBare(FullToBare(J1))
    /\ values.x.to_full = JidFull(J1)
    /\ values.a.from = values.a.to
    /\ values.a.from_full # values.a.to_full
    /\ values.y.ctor = "incoming_chat"
    /\ values.b.variant = "Incoming" /\ values.b.kind = "Chat"

\* C16: a call of Aparte::send made while the registry is not empty hands
\* the packet to the channel of exactly one connection, a member of the
\* registry at the call: the packet is queued on that channel (or dropped
\* with a warning when the channel is closed) and no other channel
\* changes.  The connection is any member: nothing ties it to the current
\* connection, as the witness shows.
Registry == {k \in Keys : connections[k] # NoConn}

C16_SendPicksOneRegistered ==
    [][( /\ send("stanza") \/ CarbonsOnEventSend
         /\ Registry # {} )
       => /\ fault' = "none"
          /\ Len(sent') = Len(sent) + 1
          /\ LET r == sent'[Len(sent')]
                 sink == connections[r.key].sink
             IN /\ r.key \in Registry
                /\ r.ok = chan[sink].open
                /\ chan'[sink].posted =
                      chan[sink].posted + (IF r.ok THEN 1 ELSE 0)
                /\ \A s \in Sinks \ {sink} : chan'[s] = chan[s]
                /\ hist'.warns = hist.warns + (IF r.ok THEN 0 ELSE 1)
                /\ connections' = connections
                /\ current_connection' = current_connection]_vars

C16_Witness ==
    \E i \in 1..Len(sent) :
        /\ sent[i].ok
        /\ Cardinality(Registry) = 2
        /\ sent[i].cur = current_connection
        /\ sent[i].key # sent[i].cur
        /\ chan[connections[sent[i].key].sink].posted = 1
        /\ chan[connections[sent[i].cur].sink].posted = 0

\* C18: the current-connection pointer is None or a key of the registry,
\* so current_connection() never panics; every connection is stored under
\* the string of its account, one per string; add_connection of a string
\* already present replaces the account and channel stored under it and
\* leaves the others alone; no step, the broadcast of a Disconnected event
\* included, removes a connection.
PointerInRegistry ==
    /\ current_connection = NoKey \/ current_connection \in Registry
    /\ fault # "current_connection: unwrap on None"
    /\ \A k \in Registry : JidToString(connections[k].account) = k

C18_RegistryConsistent ==
    /\ []PointerInRegistry
    /\ [][Registry \subseteq Registry']_vars
    /\ [][current_connection_call => fault' = "none"]_vars
    /\ [][\A j \in Jids :
            add_connection(j) =>
               /\ connections'[JidToString(j)] =
                     [account |-> j, sink |-> hist.connAdds + 1]
               /\ \A k \in Keys \ {JidToString(j)} :
                     connections'[k] = connections[k]
               /\ Registry' = Registry \cup {JidToString(j)}]_vars

C18_Witness ==
    /\ hist.connAdds = 2
    /\ Cardinality(Registry) = 1
    /\ current_connection \in Registry
    /\ connections[current_connection] = [account |-> J3, sink |-> 2]
    /\ \E b \in 1..Len(bcast) :
          bcast[b].done /\ bcast[b].ev.type = "Disconnected"

\* C19: the orchestrator's borrows are exactly those of the slots whose
\* hook is running: a slot is borrowed exclusively while a hook of its
\* plugin is on the stack or while some code holds a RefMut to it, and
\* carries the shared guards code holds otherwise.  When Aparte::event or
\* Aparte::init returns, no registered slot is borrowed.  Hence
\* get_plugin_mut::<K> of a kind K registered with a plugin of type K
\* returns the plugin whenever no hook of K is running and no code holds
\* a guard on K: after event or init have returned, and inside the hook
\* of another plugin, the lookup of CarbonsPlugin::init included.
GuardsHeld(k) ==
    \E i \in 1..Len(stack) : k \in stack[i].heldMut \/ stack[i].heldSh[k] > 0

OrchestratorBorrows ==
    \A k \in Kinds :
        borrow[k] = IF InHook(k) THEN WRITING
                    ELSE IF \E i \in 1..Len(stack) : k \in stack[i].heldMut
                    THEN WRITING
                    ELSE Shared(k)

Borrowable(K) ==
    /\ plugins[K] # NoPlugin
    /\ plugins[K].ty = K
    /\ ~InHook(K)
    /\ ~GuardsHeld(K)

C19_BorrowsReleased ==
    /\ []OrchestratorBorrows
    /\ [][(EventReturn \/ InitReturn \/ \E r \in Results : InitHookReturn(r))
          => /\ fault' = "none"
             /\ \A k \in Kinds :
                   borrow'[k] = IF InHook(k)' \/ GuardsHeld(k)'
                                THEN borrow[k] ELSE UNUSED
             /\ Len(stack') = 1 => \A k \in Registered : borrow'[k] = UNUSED
         ]_vars
    /\ [][\A K \in Kinds :
            (get_plugin_mut(K) /\ Borrowable(K)) =>
               /\ fault' = "none"
               /\ ret'.op = "get_plugin_mut"
               /\ ret'.result = "Some"
               /\ ret'.kind = K]_vars
    /\ [][(CarbonsInitGet /\ Borrowable("Disco")) =>
             /\ fault' = "none"
             /\ "Disco" \in Top'.heldMut]_vars

C19_Witness ==
    \E i \in 1..Len(inits) :
        /\ inits[i].result = "Ok"
        /\ inits[i].all = Kinds
        /\ plugins["Carbons"].ty = "Carbons"
        /\ plugins["Disco"].ty = "Disco"
        /\ ret.op = "init" /\ ret.id = i
        /\ Len(stack) = 1
        /\ \A k \in Kinds : borrow[k] = UNUSED

\* C20: an on_event of a CarbonsPlugin that has returned has called
\* Aparte::send once, with the carbons enable request, when its event is
\* Connected, and has not called it for any other event; a CarbonsPlugin
\* sends nothing else, and while its hook handles an event other than
\* Connected the hook's only step is its return, which changes nothing
\* but the call stack.
SentBy(b, k) ==
    {i \in 1..Len(sent) :
        sent[i].by = "Carbons" /\ sent[i].id = b /\ sent[i].kind = k}

InCarbonsHook ==
    Running /\ Top.op = "on_event" /\ Top.ty = "Carbons"

CarbonsSendsOnConnected ==
    /\ \A i \in 1..Len(sent) :
          sent[i].by = "Carbons" =>
              /\ sent[i].elem = "carbons:enable"
              /\ bcast[sent[i].id].ev.type = "Connected"
    /\ \A i \in 1..Len(trace) :
          trace[i].ty = "Carbons" =>
              LET n == Cardinality(SentBy(trace[i].id, trace[i].kind))
              IN /\ n <= 1
                 /\ trace[i].what = "ret" =>
                       n = IF trace[i].ev.type = "Connected" THEN 1 ELSE 0

C20_CarbonsEnablesOnConnected ==
    /\ []CarbonsSendsOnConnected
    /\ [][( /\ InCarbonsHook
            /\ bcast[Top.id].ev.type # "Connected"
            /\ ~ \E s \in Sinks : close_channel(s) )
          => /\ OnEventReturn
             /\ UNCHANGED <<commands, plugins, connections,
                            current_connection, chan, sent, hist, bcast,
                            inits, cmdcalls, fault>>]_vars
    /\ [][( /\ InCarbonsHook
            /\ bcast[Top.id].ev.type = "Connected"
            /\ Top.pc = "start"
            /\ ~ \E s \in Sinks : close_channel(s) )
          => CarbonsOnEventSend]_vars

C20_Witness ==
    \E i \in 1..Len(trace) :
        /\ trace[i].ty = "Carbons"
        /\ trace[i].what = "ret"
        /\ trace[i].ev.type = "Connected"
        /\ \E j \in SentBy(trace[i].id, trace[i].kind) :
              sent[j].ok /\ sent[j].elem = "carbons:enable"
        /\ bcast[trace[i].id].done
====
